---------------------------- MODULE Spec2Model ----------------------------
(***************************************************************************)
(* FAA calculator front end: the localStorage utility                      *)
(* (lib/localStorage.ts), the AllocationResult and ScoreTable components   *)
(* and the TickerInput component, as state machines.                       *)
(*                                                                         *)
(* Text is a sequence of one-character strings, so that trim, toUpperCase, *)
(* JSON.stringify, JSON.parse and parseFloat are computed character by     *)
(* character.  A finite non-negative number is an exact decimal            *)
(* [k |-> "fin", m |-> digits, e |-> decimals], meaning m / 10^e, kept     *)
(* normalised (no trailing zero after the point).  Ticker symbols of the   *)
(* score records are compared with === only and stay atomic strings.       *)
(***************************************************************************)
EXTENDS Integers, Sequences, FiniteSets, TLC

\* ------------------------------------------------------------------ bounds
\* longest ticker array handed to savePortfolio
MaxTickers == 2
\* longest scores array handed to the components
MaxScores == 3
\* presses of the fill-defaults button per page load
MaxFills == 1
\* requests to /api/score and /api/backtest that the model follows
MaxCalls == 2
\* length up to which every text over the ticker alphabet is submitted
MaxTickerLen == 3
\* longest series handed to the backtest chart
MaxPoints == 2

\* ------------------------------------------------------------------ text
DigitChars == <<"0", "1", "2", "3", "4", "5", "6", "7", "8", "9">>

IsDigit(c) == \E i \in 1..10 : DigitChars[i] = c

DigitVal(c) == (CHOOSE i \in 1..10 : DigitChars[i] = c) - 1

\* JavaScript white space, as far as the alphabet of the model has it
IsSpace(c) == c = " "

\* String.prototype.trim
RECURSIVE TrimLeft(_)
TrimLeft(s) ==
    IF s # <<>> /\ IsSpace(Head(s)) THEN TrimLeft(Tail(s)) ELSE s

RECURSIVE TrimRight(_)
TrimRight(s) ==
    IF s # <<>> /\ IsSpace(s[Len(s)]) THEN TrimRight(SubSeq(s, 1, Len(s) - 1)) ELSE s

Trim(s) == TrimRight(TrimLeft(s))

\* String.prototype.toUpperCase on one character
UpperChar(c) ==
    CASE c = "v" -> "V"
      [] c = "t" -> "T"
      [] c = "i" -> "I"
      [] c = "e" -> "E"
      [] c = "a" -> "A"
      [] OTHER -> c

ToUpperCase(s) == [i \in 1..Len(s) |-> UpperChar(s[i])]


\* ---------------------------------------------------------------- numbers
RECURSIVE Pow10(_)
Pow10(e) == IF e = 0 THEN 1 ELSE 10 * Pow10(e - 1)

Fin(m, e) == [k |-> "fin", m |-> m, e |-> e]
NaN == [k |-> "nan", m |-> 0, e |-> 0]
Infinity == [k |-> "inf", m |-> 0, e |-> 0]
NegInfinity == [k |-> "ninf", m |-> 0, e |-> 0]
Negative(m, e) == [k |-> "neg", m |-> m, e |-> e]

\* the decimal m / 10^e without trailing zeros after the point
RECURSIVE Normalise(_, _)
Normalise(m, e) ==
    IF e > 0 /\ m % 10 = 0 THEN Normalise(m \div 10, e - 1) ELSE Fin(m, e)

\* the decimal digits of a natural number, most significant first
RECURSIVE Digits(_)
Digits(n) ==
    IF n < 10 THEN <<DigitChars[n + 1]>>
    ELSE Append(Digits(n \div 10), DigitChars[(n % 10) + 1])

\* Number.prototype.toString of a finite non-negative number
NumberToString(x) ==
    LET int == Digits(x.m \div Pow10(x.e))
        fr  == Digits(x.m % Pow10(x.e))
        pad == [i \in 1..(x.e - Len(fr)) |-> "0"]
    IN  IF x.e = 0 THEN int ELSE int \o <<".">> \o pad \o fr

\* parseFloat / JSON number: the digits of s from position i on
RECURSIVE DigitRun(_, _)
DigitRun(s, i) ==
    IF i <= Len(s) /\ IsDigit(s[i]) THEN <<s[i]>> \o DigitRun(s, i + 1) ELSE <<>>

\* the natural number a sequence of digits denotes
RECURSIVE DigitsValue(_)
DigitsValue(ds) ==
    IF ds = <<>> THEN 0
    ELSE 10 * DigitsValue(SubSeq(ds, 1, Len(ds) - 1)) + DigitVal(ds[Len(ds)])

\* the number denoted by integer digits ip and fraction digits fp
DecimalOf(ip, fp) == Normalise(DigitsValue(ip \o fp), Len(fp))

\* parseFloat: leading white space, an optional sign, then digits with an
\* optional fraction (or a fraction alone); NaN when no digit is found
ParseFloat(s) ==
    LET t   == TrimLeft(s)
        neg == t # <<>> /\ t[1] = "-"
        j   == IF t # <<>> /\ (t[1] = "-" \/ t[1] = "+") THEN 2 ELSE 1
        ip  == DigitRun(t, j)
        k   == j + Len(ip)
        dot == k <= Len(t) /\ t[k] = "."
        fp  == IF dot THEN DigitRun(t, k + 1) ELSE <<>>
        x   == DecimalOf(ip, fp)
    IN  IF ip = <<>> /\ fp = <<>> THEN NaN
        ELSE IF neg /\ x.m # 0 THEN Negative(x.m, x.e)
        ELSE x

\* value > 0 on numbers
IsPositive(x) == x.k = "inf" \/ (x.k = "fin" /\ x.m > 0)

\* ------------------------------------------------------------- rationals
\* results of the divisions of the allocation, as exact fractions n / d
RECURSIVE GCD(_, _)
GCD(a, b) == IF b = 0 THEN a ELSE GCD(b, a % b)

Rat(n, d) == LET g == GCD(n, d) IN [n |-> n \div g, d |-> d \div g]
RatOfNumber(x) == Rat(x.m, Pow10(x.e))
RatAdd(a, b) == Rat(a.n * b.d + b.n * a.d, a.d * b.d)
RatDivInt(a, k) == Rat(a.n, a.d * k)
RatMulInt(a, k) == Rat(a.n * k, a.d)
RatDiv(a, b) == Rat(a.n * b.d, a.d * b.n)

\* ------------------------------------------------------------------- JSON
Quote == "\""
Backslash == "\\"

JStr(v) == [t |-> "str", v |-> v]
JNum(v) == [t |-> "num", v |-> v]
JArr(v) == [t |-> "arr", v |-> v]
JNull == [t |-> "null"]
JBool(b) == [t |-> "bool", v |-> b]
JSyntaxError == [t |-> "err"]

\* JSON.stringify of a string: quoted, with quote and backslash escaped
RECURSIVE EscapeChars(_)
EscapeChars(s) ==
    IF s = <<>> THEN <<>>
    ELSE (IF Head(s) = Quote \/ Head(s) = Backslash
            THEN <<Backslash, Head(s)>> ELSE <<Head(s)>>) \o EscapeChars(Tail(s))

StringifyString(s) == <<Quote>> \o EscapeChars(s) \o <<Quote>>

\* JSON.stringify of a number: NaN and Infinity are written as null
StringifyNumber(x) ==
    IF x.k = "fin" THEN NumberToString(x)
    ELSE IF x.k = "neg" THEN <<"-">> \o NumberToString(Fin(x.m, x.e))
    ELSE <<"n", "u", "l", "l">>

RECURSIVE JoinStrings(_)
JoinStrings(xs) ==
    IF xs = <<>> THEN <<>>
    ELSE IF Len(xs) = 1 THEN StringifyString(xs[1])
    ELSE StringifyString(xs[1]) \o <<",">> \o JoinStrings(Tail(xs))

\* JSON.stringify of an array of strings
StringifyArray(xs) == <<"[">> \o JoinStrings(xs) \o <<"]">>

Parsed(v, n) == [ok |-> TRUE, v |-> v, n |-> n]
ParseFail == [ok |-> FALSE, v |-> JSyntaxError, n |-> 0]

\* the characters of a JSON string literal whose opening quote is at i - 1
RECURSIVE ParseStringBody(_, _, _)
ParseStringBody(s, i, acc) ==
    IF i > Len(s) THEN ParseFail
    ELSE IF s[i] = Quote THEN Parsed(JStr(acc), i + 1)
    ELSE IF s[i] = Backslash
         THEN IF i + 1 <= Len(s) /\ (s[i + 1] = Quote \/ s[i + 1] = Backslash)
              THEN ParseStringBody(s, i + 2, Append(acc, s[i + 1]))
              ELSE ParseFail
    ELSE ParseStringBody(s, i + 1, Append(acc, s[i]))

\* a JSON number at i: -? (0 | [1-9][0-9]*) (. [0-9]+)?
ParseNumber(s, i) ==
    LET neg == i <= Len(s) /\ s[i] = "-"
        j   == IF neg THEN i + 1 ELSE i
        ip  == DigitRun(s, j)
        k   == j + Len(ip)
        dot == k <= Len(s) /\ s[k] = "."
        fp  == IF dot THEN DigitRun(s, k + 1) ELSE <<>>
        n   == IF dot THEN k + 1 + Len(fp) ELSE k
        x   == DecimalOf(ip, fp)
    IN  IF ip = <<>> \/ (Len(ip) > 1 /\ ip[1] = "0") \/ (dot /\ fp = <<>>)
        THEN ParseFail
        ELSE Parsed(JNum(IF neg /\ x.m # 0 THEN Negative(x.m, x.e) ELSE x), n)

IsLiteralAt(s, i, lit) ==
    i + Len(lit) - 1 <= Len(s) /\ SubSeq(s, i, i + Len(lit) - 1) = lit

RECURSIVE ParseValue(_, _)
RECURSIVE ParseElements(_, _, _)

\* the elements of an array after its "[" or after a ","
ParseElements(s, i, acc) ==
    LET r == ParseValue(s, i)
    IN  IF ~r.ok \/ r.n > Len(s) THEN ParseFail
        ELSE IF s[r.n] = "]" THEN Parsed(JArr(Append(acc, r.v)), r.n + 1)
        ELSE IF s[r.n] = "," THEN ParseElements(s, r.n + 1, Append(acc, r.v))
        ELSE ParseFail

ParseValue(s, i) ==
    IF i > Len(s) THEN ParseFail
    ELSE IF s[i] = Quote THEN ParseStringBody(s, i + 1, <<>>)
    ELSE IF s[i] = "[" THEN
         IF i + 1 <= Len(s) /\ s[i + 1] = "]" THEN Parsed(JArr(<<>>), i + 2)
         ELSE ParseElements(s, i + 1, <<>>)
    ELSE IF IsLiteralAt(s, i, <<"n", "u", "l", "l">>) THEN Parsed(JNull, i + 4)
    ELSE IF s[i] = "-" \/ IsDigit(s[i]) THEN ParseNumber(s, i)
    ELSE ParseFail

\* JSON.parse: the value, or JSyntaxError where JSON.parse throws
JSONParse(s) ==
    LET r == ParseValue(s, 1)
    IN  IF r.ok /\ r.n = Len(s) + 1 THEN r.v ELSE JSyntaxError

\* ------------------------------------------------------------------ state
VARIABLES
    browser,    \* isBrowser(): window and window.localStorage are defined
    storage,    \* window.localStorage: key -> item
    lastOp,     \* the last call of the storage utility: [op, arg, ret]
    scores,     \* the scores prop of ScoreTable and AllocationResult
    mounted,    \* the result components are mounted
    investmentAmount,   \* AllocationResult state: the amount, as text
    inputValue, \* AllocationResult state: the text of the amount field
    view,       \* what the two components render from props and state
    tickers,    \* TickerInput state: the seven fields, [value, state] each
    debounceTimers, \* TickerInput ref: per field, whether it holds a timer id
    timerQueue, \* the pending timers, in the order in which they fire
    requests,   \* the validation requests in flight: [index, ticker]
    fills,      \* presses of the fill-defaults button since the page was loaded
    page,       \* the page that hosts TickerInput: [route, validTickers, allValid, isCalculating]
    apiCalls,   \* the requests sent to /api/score and /api/backtest, in order
    lastResponse,   \* the last exchange with POST /api/validate_ticker made directly
    chart           \* the data handed to BacktestChart and what it rendered

storeVars == <<browser, storage, lastOp>>
viewVars == <<scores, mounted, investmentAmount, inputValue, view>>
tickerVars == <<tickers, debounceTimers, timerQueue, requests, fills>>
pageVars == <<page, apiCalls>>
routeVars == <<lastResponse>>
chartVars == <<chart>>

\* ------------------------------------------------------- lib/localStorage
PORTFOLIO == "faa_portfolio"
AMOUNT == "faa_investment_amount"
STORAGE_KEYS == {PORTFOLIO, AMOUNT}

\* a key of the same origin's localStorage that the calculator does not own
OTHER_APP_DATA == "other_app_data"
LocalStorageKeys == STORAGE_KEYS \cup {OTHER_APP_DATA}

Item(text) == [has |-> TRUE, text |-> text]
NoItem == [has |-> FALSE, text |-> <<>>]
EmptyStorage == [k \in LocalStorageKeys |-> NoItem]

\* localStorage.getItem followed by the `if (!stored)` test: null and ""
IsFalsyItem(it) == ~it.has \/ it.text = <<>>

IsArray(arg) == arg.t = "arr"
IsStringValue(v) == v.t = "str"
EveryString(arg) == \A i \in 1..Len(arg.v) : IsStringValue(arg.v[i])

\* tickers.map(t => t.trim().toUpperCase()).filter(t => t.length > 0)
RECURSIVE CleanTickers(_)
CleanTickers(xs) ==
    IF xs = <<>> THEN <<>>
    ELSE LET c == ToUpperCase(Trim(Head(xs)))
         IN  (IF Len(c) > 0 THEN <<c>> ELSE <<>>) \o CleanTickers(Tail(xs))

StringsOf(arg) == [i \in 1..Len(arg.v) |-> arg.v[i].v]
ArrayOfStrings(xs) == JArr([i \in 1..Len(xs) |-> JStr(xs[i])])

\* getPortfolio without the try block around JSON.parse: the SyntaxError
\* is the outcome of the call
getPortfolio_noCatch(br, st) ==
    IF ~br THEN JNull
    ELSE IF IsFalsyItem(st[PORTFOLIO]) THEN JNull
    ELSE LET parsed == JSONParse(st[PORTFOLIO].text)
         IN  IF parsed.t = "err" THEN parsed
             ELSE IF IsArray(parsed) /\ EveryString(parsed) THEN parsed
             ELSE JNull

\* getPortfolio(): the array of strings stored, or null
getPortfolio(br, st) ==
    IF ~br THEN JNull
    ELSE IF IsFalsyItem(st[PORTFOLIO]) THEN JNull
    ELSE LET parsed == JSONParse(st[PORTFOLIO].text)
         IN  IF parsed.t = "err" THEN JNull
             ELSE IF IsArray(parsed) /\ EveryString(parsed) THEN parsed
             ELSE JNull

\* savePortfolio that trims and upper-cases but keeps the empty list
savePortfolio_keepsEmpty(br, st, list) ==
    IF ~br \/ ~IsArray(list) THEN [ret |-> JBool(FALSE), storage |-> st]
    ELSE IF ~EveryString(list) THEN [ret |-> JBool(FALSE), storage |-> st]
    ELSE [ret |-> JBool(TRUE),
          storage |-> [st EXCEPT ![PORTFOLIO] =
              Item(StringifyArray([i \in 1..Len(list.v) |->
                                      ToUpperCase(Trim(list.v[i].v))]))]]

\* savePortfolio(list): [ret, storage]
savePortfolio(br, st, list) ==
    IF ~br THEN [ret |-> JBool(FALSE), storage |-> st]
    ELSE IF ~IsArray(list) THEN [ret |-> JBool(FALSE), storage |-> st]
    ELSE IF ~EveryString(list) THEN [ret |-> JBool(FALSE), storage |-> st]
    ELSE [ret |-> JBool(TRUE),
          storage |-> [st EXCEPT ![PORTFOLIO] =
                          Item(StringifyArray(CleanTickers(StringsOf(list))))]]

\* getAmount that takes a stored 0 for a missing amount (parsed > 0)
getAmount_rejectsZero(br, st) ==
    IF ~br \/ IsFalsyItem(st[AMOUNT]) THEN JNull
    ELSE LET parsed == JSONParse(st[AMOUNT].text)
         IN  IF parsed.t = "num" /\ parsed.v.k = "fin" /\ parsed.v.m > 0
             THEN parsed ELSE JNull

\* getAmount(): the non-negative number stored, or null
getAmount(br, st) ==
    IF ~br THEN JNull
    ELSE IF IsFalsyItem(st[AMOUNT]) THEN JNull
    ELSE LET parsed == JSONParse(st[AMOUNT].text)
         IN  IF parsed.t = "err" THEN JNull
             ELSE IF parsed.t = "num" /\ parsed.v.k # "nan" /\ parsed.v.k # "neg"
                     /\ parsed.v.k # "ninf"
                  THEN parsed
             ELSE JNull

\* saveAmount without the test for a negative amount
saveAmount_storesNegative(br, st, amount) ==
    IF ~br THEN [ret |-> JBool(FALSE), storage |-> st]
    ELSE IF amount.t # "num" \/ amount.v.k = "nan" THEN [ret |-> JBool(FALSE), storage |-> st]
    ELSE [ret |-> JBool(TRUE),
          storage |-> [st EXCEPT ![AMOUNT] = Item(StringifyNumber(amount.v))]]

\* saveAmount(amount): [ret, storage]
saveAmount(br, st, amount) ==
    IF ~br THEN [ret |-> JBool(FALSE), storage |-> st]
    ELSE IF amount.t # "num" \/ amount.v.k = "nan" THEN [ret |-> JBool(FALSE), storage |-> st]
    ELSE IF amount.v.k = "neg" \/ amount.v.k = "ninf" THEN [ret |-> JBool(FALSE), storage |-> st]
    ELSE [ret |-> JBool(TRUE),
          storage |-> [st EXCEPT ![AMOUNT] = Item(StringifyNumber(amount.v))]]

\* clearAll by localStorage.clear(): every item of the origin is removed
clearAll_clearsEverything(br, st) ==
    IF ~br THEN [ret |-> JBool(FALSE), storage |-> st]
    ELSE [ret |-> JBool(TRUE), storage |-> EmptyStorage]

\* clearAll that removes the portfolio and leaves the amount
clearAll_keepsAmount(br, st) ==
    IF ~br THEN [ret |-> JBool(FALSE), storage |-> st]
    ELSE [ret |-> JBool(TRUE), storage |-> [st EXCEPT ![PORTFOLIO] = NoItem]]

\* clearAll(): [ret, storage]
clearAll(br, st) ==
    IF ~br THEN [ret |-> JBool(FALSE), storage |-> st]
    ELSE [ret |-> JBool(TRUE),
          storage |-> [[st EXCEPT ![PORTFOLIO] = NoItem] EXCEPT ![AMOUNT] = NoItem]]

\* ------------------------------------------- components/AllocationResult
CASH == "CASH"
SHY == "SHY"

\* selectedScores that leaves out the selected scores replaced by the proxy
selectedScores_dropsProxied(sc) == SelectSeq(sc, LAMBDA s : s.selected /\ ~s.cash_proxy)

\* scores.filter(score => score.selected)
selectedScores(sc) == SelectSeq(sc, LAMBDA s : s.selected)

\* allocationTicker that tests cash_proxy before hold_cash
allocationTicker_proxyFirst(score) ==
    IF score.cash_proxy THEN SHY
    ELSE IF score.hold_cash THEN CASH
    ELSE score.ticker

\* the symbol one selected score is allocated to (cash replacement)
allocationTicker(score) ==
    IF score.hold_cash THEN CASH
    ELSE IF score.cash_proxy THEN SHY
    ELSE score.ticker

getAllocationTickers(sc) ==
    LET sel == selectedScores(sc)
    IN  [i \in 1..Len(sel) |-> allocationTicker(sel[i])]

\* Intl.NumberFormat en-US, currency USD, two fraction digits
RECURSIVE GroupThousands(_)
GroupThousands(ds) ==
    IF Len(ds) <= 3 THEN ds
    ELSE GroupThousands(SubSeq(ds, 1, Len(ds) - 3))
            \o <<",">> \o SubSeq(ds, Len(ds) - 2, Len(ds))

formatCurrency(x) ==
    LET cents == IF x.e <= 2 THEN x.m * Pow10(2 - x.e)
                 ELSE (x.m + 5 * Pow10(x.e - 3)) \div Pow10(x.e - 2)
        fr    == cents % 100
    IN  <<"$">> \o GroupThousands(Digits(cents \div 100))
            \o <<".", DigitChars[(fr \div 10) + 1], DigitChars[(fr % 10) + 1]>>

\* parseCurrency without the removal of the characters that are no digits
parseCurrency_noCleaning(value) ==
    LET parsed == ParseFloat(value)
    IN  IF parsed.k \in {"nan", "neg"} THEN Fin(0, 0) ELSE parsed

\* value.replace(/[^0-9.]/g, ''), parseFloat, NaN -> 0
parseCurrency(value) ==
    LET cleaned == SelectSeq(value, LAMBDA c : IsDigit(c) \/ c = ".")
        parsed  == ParseFloat(cleaned)
    IN  IF parsed.k = "nan" THEN Fin(0, 0) ELSE parsed

\* tickerMapFrom that counts a repeated symbol but does not add its amount
RECURSIVE tickerMapFrom_lostAmount(_, _, _)
tickerMapFrom_lostAmount(symbols, amountPerTicker, map) ==
    IF symbols = <<>> THEN map
    ELSE LET t   == Head(symbols)
             hit == {i \in 1..Len(map) : map[i].ticker = t}
         IN  IF hit # {}
             THEN LET i == CHOOSE j \in hit : TRUE
                  IN  tickerMapFrom_lostAmount(Tail(symbols), amountPerTicker,
                          [map EXCEPT ![i] =
                              [ticker |-> t, count |-> @.count + 1, amount |-> @.amount]])
             ELSE tickerMapFrom_lostAmount(Tail(symbols), amountPerTicker,
                      Append(map, [ticker |-> t, count |-> 1,
                                   amount |-> amountPerTicker]))

\* tickerMap that makes one entry per position and never consolidates
tickerMap_noConsolidation(amount, symbols) ==
    IF Len(symbols) = 0 \/ ~IsPositive(amount) THEN <<>>
    ELSE [i \in 1..Len(symbols) |->
             [ticker |-> symbols[i], count |-> 1,
              amount |-> RatDivInt(RatOfNumber(amount), Len(symbols))]]

\* the Map of calculateAllocation, in insertion order: <<[ticker, count, amount]>>
RECURSIVE tickerMapFrom(_, _, _)
tickerMapFrom(symbols, amountPerTicker, map) ==
    IF symbols = <<>> THEN map
    ELSE LET t   == Head(symbols)
             hit == {i \in 1..Len(map) : map[i].ticker = t}
         IN  IF hit # {}
             THEN LET i == CHOOSE j \in hit : TRUE
                  IN  tickerMapFrom(Tail(symbols), amountPerTicker,
                          [map EXCEPT ![i] =
                              [ticker |-> t, count |-> @.count + 1,
                               amount |-> RatAdd(@.amount, amountPerTicker)]])
             ELSE tickerMapFrom(Tail(symbols), amountPerTicker,
                      Append(map, [ticker |-> t, count |-> 1,
                                   amount |-> amountPerTicker]))

tickerMap(amount, symbols) ==
    IF Len(symbols) = 0 \/ ~IsPositive(amount) THEN <<>>
    ELSE tickerMapFrom(symbols, RatDivInt(RatOfNumber(amount), Len(symbols)), <<>>)

\* calculateAllocation(amount, symbols): <<[ticker, amount, percentage]>>
calculateAllocation(amount, symbols) ==
    IF Len(symbols) = 0 \/ ~IsPositive(amount) THEN <<>>
    ELSE LET equalWeight == Rat(100, Len(symbols))
             map == tickerMap(amount, symbols)
         IN  [i \in 1..Len(map) |->
                 [ticker |-> map[i].ticker,
                  amount |-> map[i].amount,
                  percentage |-> RatMulInt(equalWeight, map[i].count)]]

\* parseFloat(investmentAmount) || 0
amountOf(text) ==
    LET parsed == ParseFloat(text)
    IN  IF parsed.k = "nan" THEN Fin(0, 0) ELSE parsed

NoShares == [shown |-> FALSE, price |-> 0, shares |-> Rat(0, 1)]

\* Array.prototype.find: the least of the matching indexes, 0 when none matches
FirstIndex(hit) ==
    IF hit = {} THEN 0 ELSE CHOOSE i \in hit : \A j \in hit : i <= j

\* the price and share lines under one allocation entry
shareInfo(sc, allocation) ==
    IF allocation.ticker = CASH THEN NoShares
    ELSE LET sel == selectedScores(sc)
             i == IF allocation.ticker = SHY
                  THEN FirstIndex({j \in 1..Len(sc) : sc[j].ticker = SHY})
                  ELSE FirstIndex({j \in 1..Len(sel) :
                                      ~sel[j].cash_proxy /\ ~sel[j].hold_cash
                                          /\ sel[j].ticker = allocation.ticker})
             tickerScore == IF allocation.ticker = SHY THEN sc[i] ELSE sel[i]
         IN  IF i = 0 THEN NoShares
             ELSE [shown |-> TRUE, price |-> tickerScore.current_price,
                   shares |-> RatDivInt(allocation.amount, tickerScore.current_price)]

\* the badges beside an allocation entry
allocationBadges(allocation) ==
    (IF allocation.ticker = CASH THEN {"hold_cash"} ELSE {})
        \cup (IF allocation.ticker = SHY THEN {"cash_proxy"} ELSE {})

\* ------------------------------------------------- components/ScoreTable
\* [...scores].sort((a, b) => b.total_score - a.total_score), a stable sort
compareScores(a, b) == b.total_score - a.total_score

\* x is placed before the first element it compares less than
RECURSIVE InsertSorted(_, _)
InsertSorted(sorted, x) ==
    IF sorted = <<>> THEN <<x>>
    ELSE IF compareScores(x, Head(sorted)) < 0
         THEN <<x>> \o sorted
         ELSE <<Head(sorted)>> \o InsertSorted(Tail(sorted), x)

RECURSIVE sortedScoresFrom(_, _)
sortedScoresFrom(sc, sorted) ==
    IF sc = <<>> THEN sorted
    ELSE sortedScoresFrom(Tail(sc), InsertSorted(sorted, Head(sc)))

sortedScores(sc) == sortedScoresFrom(sc, <<>>)

\* the badges of the status cell of one row
statusBadges(score) ==
    (IF score.selected THEN {"selected"} ELSE {})
        \cup (IF score.hold_cash THEN {"hold_cash"} ELSE {})
        \cup (IF score.cash_proxy /\ ~score.hold_cash THEN {"cash_proxy"} ELSE {})

\* the data rows of the table; none while loading or without scores
ScoreTableRows(sc, isLoading) ==
    IF isLoading \/ Len(sc) = 0 THEN <<>>
    ELSE LET sorted == sortedScores(sc)
         IN  [i \in 1..Len(sorted) |->
                 [ticker |-> sorted[i].ticker,
                  total_score |-> sorted[i].total_score,
                  badges |-> statusBadges(sorted[i])]]

\* -------------------------------------------------------------- rendering
NotRendered ==
    [tickers |-> <<>>, amount |-> Fin(0, 0), shown |-> FALSE, positions |-> 0,
     allocations |-> <<>>, shares |-> <<>>, badges |-> <<>>, rows |-> <<>>]

\* the output of AllocationResult and ScoreTable for props sc and state amt
Render(isMounted, sc, amt) ==
    IF ~isMounted THEN NotRendered
    ELSE LET allocationTickers == getAllocationTickers(sc)
             amount == amountOf(amt)
             allocations == calculateAllocation(amount, allocationTickers)
         IN  [tickers |-> allocationTickers,
              amount |-> amount,
              shown |-> IsPositive(amount) /\ Len(allocationTickers) > 0,
              positions |-> Len(selectedScores(sc)),
              allocations |-> allocations,
              shares |-> [i \in 1..Len(allocations) |-> shareInfo(sc, allocations[i])],
              badges |-> [i \in 1..Len(allocations) |-> allocationBadges(allocations[i])],
              rows |-> ScoreTableRows(sc, FALSE)]

\* ------------------------------------------------------ inputs of the store
\* texts handed to savePortfolio as tickers: blank, padded, lower case,
\* repeated, and one holding a quote and a backslash
TickerTexts ==
    { <<>>,
      <<" ", " ">>,
      <<"V", "T", "I">>,
      <<" ", "v", "t", "i", " ">>,
      <<"v", "e", "a">>,
      <<"a", Quote, Backslash>> }

RECURSIVE SeqsUpTo(_, _)
SeqsUpTo(S, n) ==
    IF n = 0 THEN {<<>>}
    ELSE LET shorter == SeqsUpTo(S, n - 1)
         IN  shorter \cup {Append(q, x) : q \in {r \in shorter : Len(r) = n - 1}, x \in S}

\* arguments of savePortfolio: arrays of strings, a non-array and an array
\* holding a non-string
PortfolioArgs == {ArrayOfStrings(xs) : xs \in SeqsUpTo(TickerTexts, MaxTickers)}
NonArrayArg == JStr(<<"V", "T", "I">>)
MixedArrayArg == JArr(<<JStr(<<"V", "T", "I">>), JNum(Fin(123, 0))>>)

\* arguments of saveAmount: 0, 10000, 10000.5, 0.05, 999999999, and the
\* values the validation is about
AmountArgs ==
    {JNum(Fin(0, 0)), JNum(Fin(10000, 0)), JNum(Fin(100005, 1)), JNum(Fin(5, 2)),
     JNum(Fin(999999999, 0)),
     JNum(Negative(1000, 0)), JNum(NaN), JNum(Infinity), JNum(NegInfinity)}
NonNumberArg == JStr(<<"1", "0", "0", "0", "0">>)

Call(op, arg, ret) == [op |-> op, arg |-> arg, ret |-> ret]

\* ----------------------------------------------------- actions of the store
SavePortfolio(arg) ==
    LET r == savePortfolio(browser, storage, arg)
    IN  /\ storage' = r.storage
        /\ lastOp' = Call("savePortfolio", arg, r.ret)
        /\ UNCHANGED <<browser, viewVars, tickerVars, pageVars, routeVars, chartVars>>

GetPortfolio ==
    /\ lastOp' = Call("getPortfolio", JNull, getPortfolio(browser, storage))
    /\ UNCHANGED <<browser, storage, viewVars, tickerVars, pageVars, routeVars, chartVars>>

SaveAmount(arg) ==
    LET r == saveAmount(browser, storage, arg)
    IN  /\ storage' = r.storage
        /\ lastOp' = Call("saveAmount", arg, r.ret)
        /\ UNCHANGED <<browser, viewVars, tickerVars, pageVars, routeVars, chartVars>>

GetAmount ==
    /\ lastOp' = Call("getAmount", JNull, getAmount(browser, storage))
    /\ UNCHANGED <<browser, storage, viewVars, tickerVars, pageVars, routeVars, chartVars>>

ClearAll ==
    LET r == clearAll(browser, storage)
    IN  /\ storage' = r.storage
        /\ lastOp' = Call("clearAll", JNull, r.ret)
        /\ UNCHANGED <<browser, viewVars, tickerVars, pageVars, routeVars, chartVars>>

\* ----------------------------------------------------- inputs of the views
Universe == {"VTI", "VEA", "VWO", "SHY"}

\* the market data of a symbol on the evaluation date
PriceOf(t) ==
    CASE t = "VTI" -> 200
      [] t = "VEA" -> 50
      [] t = "VWO" -> 40
      [] OTHER -> 80

\* integrated scores in tenths; two symbols tie
TotalScoreOf(t) ==
    CASE t = "VTI" -> 20
      [] t = "VEA" -> 35
      [] t = "VWO" -> 35
      [] OTHER -> 85

Flags == [selected : BOOLEAN, cash_proxy : BOOLEAN, hold_cash : BOOLEAN]

ScoreData(t, f) ==
    [ticker |-> t, current_price |-> PriceOf(t), total_score |-> TotalScoreOf(t),
     selected |-> f.selected, cash_proxy |-> f.cash_proxy, hold_cash |-> f.hold_cash]

\* the orders in which the symbols of a scores object are listed
UniverseOrders == {<<"VTI", "SHY", "VEA", "VWO">>, <<"VWO", "VEA", "SHY", "VTI">>}

RECURSIVE SubSeqs(_)
SubSeqs(q) ==
    IF q = <<>> THEN {<<>>}
    ELSE LET rest == SubSeqs(Tail(q))
         IN  rest \cup {<<Head(q)>> \o r : r \in rest}

\* the ticker lists of a scores object: its keys, so no symbol twice
TickerLists ==
    {q \in UNION {SubSeqs(o) : o \in UniverseOrders} : Len(q) <= MaxScores}

\* texts typed into the amount field while the results are looked at
ViewAmountTexts == { <<>>, <<"1", "0", "0">> }

\* --------------------------------------------- actions of AllocationResult
\* a mount whose effect reads the saved amount and does not use it
Mount_ignoresSaved ==
    /\ ~mounted
    /\ mounted' = TRUE
    /\ lastOp' = Call("getAmount", JNull, getAmount(browser, storage))
    /\ view' = Render(TRUE, scores, investmentAmount)
    /\ UNCHANGED <<browser, storage, scores, investmentAmount, inputValue, tickerVars, pageVars, routeVars, chartVars>>

\* the components are mounted: first render, then the effect that loads the
\* saved amount
Mount ==
    /\ ~mounted
    /\ mounted' = TRUE
    /\ LET savedAmount == getAmount(browser, storage)
       IN  /\ lastOp' = Call("getAmount", JNull, savedAmount)
           /\ IF savedAmount.t # "null"
              THEN /\ investmentAmount' = NumberToString(savedAmount.v)
                   /\ inputValue' = formatCurrency(savedAmount.v)
              ELSE UNCHANGED <<investmentAmount, inputValue>>
    /\ view' = Render(TRUE, scores, investmentAmount')
    /\ UNCHANGED <<browser, storage, scores, tickerVars, pageVars, routeVars, chartVars>>

handleInputChange(value) ==
    /\ mounted
    /\ inputValue' = value
    /\ investmentAmount' = NumberToString(parseCurrency(value))
    /\ view' = Render(mounted, scores, investmentAmount')
    /\ UNCHANGED <<storeVars, scores, mounted, tickerVars, pageVars, routeVars, chartVars>>

handleInputBlur ==
    /\ mounted
    /\ LET numericValue == parseCurrency(inputValue)
       IN  IF IsPositive(numericValue)
           THEN LET r == saveAmount(browser, storage, JNum(numericValue))
                IN  /\ inputValue' = formatCurrency(numericValue)
                    /\ storage' = r.storage
                    /\ lastOp' = Call("saveAmount", JNum(numericValue), r.ret)
                    /\ UNCHANGED investmentAmount
           ELSE /\ inputValue' = <<>>
                /\ investmentAmount' = <<>>
                /\ UNCHANGED <<storage, lastOp>>
    /\ view' = Render(mounted, scores, investmentAmount')
    /\ UNCHANGED <<browser, scores, mounted, tickerVars, pageVars, routeVars, chartVars>>

handleInputFocus ==
    /\ mounted
    /\ LET numericValue == parseCurrency(inputValue)
       IN  IF IsPositive(numericValue)
           THEN inputValue' = NumberToString(numericValue)
           ELSE UNCHANGED inputValue
    /\ view' = Render(mounted, scores, investmentAmount)
    /\ UNCHANGED <<storeVars, scores, mounted, investmentAmount, tickerVars, pageVars, routeVars, chartVars>>


\* ------------------------------------------------ components/TickerInput
NumFields == 7

DEFAULT_TICKERS ==
    << <<"V", "T", "I">>, <<"V", "E", "A">>, <<"V", "W", "O">>, <<"S", "H", "Y">>,
       <<"B", "N", "D">>, <<"G", "S", "G">>, <<"V", "N", "Q">> >>

\* the letters A-Z that the texts of the model are written in
UpperLetters ==
    {"A", "B", "D", "E", "G", "H", "I", "N", "O", "Q", "S", "T", "V", "W", "X", "Y"}

\* a pattern without the limit of five letters: /^[A-Z]+(\.[A-Z])?$/
tickerPattern_noLimit(t) ==
    LET n == Len(t)
        AllLetters(a, b) == \A i \in a..b : t[i] \in UpperLetters
    IN  \/ n >= 1 /\ AllLetters(1, n)
        \/ n >= 3 /\ AllLetters(1, n - 2) /\ t[n - 1] = "." /\ t[n] \in UpperLetters

\* POST /api/validate_ticker on an upper-cased, trimmed, non-empty ticker:
\* /^[A-Z]{1,5}(\.[A-Z])?$/
tickerPattern(t) ==
    LET n == Len(t)
        AllLetters(a, b) == \A i \in a..b : t[i] \in UpperLetters
    IN  \/ n >= 1 /\ n <= 5 /\ AllLetters(1, n)
        \/ n >= 3 /\ n <= 7 /\ AllLetters(1, n - 2) /\ t[n - 1] = "." /\ t[n] \in UpperLetters

\* POST /api/validate_ticker with a body whose ticker field is ticker (null
\* when the field is missing): the status and the valid field of the answer
POST(ticker) ==
    IF ticker.t = "null" THEN [status |-> 400, valid |-> FALSE]
    ELSE IF ticker.t # "str" THEN [status |-> 500, valid |-> FALSE]
    ELSE LET t == ToUpperCase(Trim(ticker.v))
         IN  IF t = <<>> THEN [status |-> 400, valid |-> FALSE]
             ELSE IF ~tickerPattern(t) THEN [status |-> 200, valid |-> FALSE]
             ELSE [status |-> 200, valid |-> TRUE]

TickerData(value, state) == [value |-> value, state |-> state]

\* ------------------------------------------- app/page and app/backtest/page
HomePage == "/"
BacktestPage == "/backtest"
Routes == {HomePage, BacktestPage}

\* the state of a page when it is loaded
NoError == ""
NoBacktestData ==
    [equity_curve |-> <<>>, spy_benchmark |-> <<>>, metrics |-> [cagr |-> 0, mdd |-> 0, sharpe |-> 0]]

PageState(route) ==
    [route |-> route, validTickers |-> <<>>, allValid |-> FALSE, isCalculating |-> FALSE,
     error |-> NoError, hasCalculated |-> FALSE, backtestData |-> NoBacktestData,
     tickerInputMounted |-> TRUE]

\* tickers.every(t => t.state === 'valid')
allValidOf(tk) == \A i \in 1..Len(tk) : tk[i].state = "valid"

\* tickers.filter(t => t.state === 'valid').map(t => t.value.toUpperCase().trim())
validTickersOf(tk) ==
    LET valid == SelectSeq(tk, LAMBDA t : t.state = "valid")
    IN  [i \in 1..Len(valid) |-> Trim(ToUpperCase(valid[i].value))]

\* validTickers.length: as many as there are fields in the valid state
validTickersLength(tk) == Cardinality({i \in 1..Len(tk) : tk[i].state = "valid"})

\* an effect that reports to the page only when every field is valid
onValidationComplete_onlyWhenValid(pg, prev, next) ==
    IF allValidOf(next)
    THEN [pg EXCEPT !.validTickers = validTickersOf(next), !.allValid = TRUE]
    ELSE pg


\* the effect of TickerInput on [validTickers.length, allValid], which calls
\* handleValidationComplete of the page
onValidationComplete(pg, prev, next) ==
    IF validTickersLength(next) # validTickersLength(prev)
          \/ allValidOf(next) # allValidOf(prev)
    THEN [pg EXCEPT !.validTickers = validTickersOf(next), !.allValid = allValidOf(next)]
    ELSE pg

ApiCall(url, list) == [url |-> url, tickers |-> list]

\* updateTickerState(index, updates)
updateTickerState(prev, index, updates) ==
    [prev EXCEPT ![index] = updates]

\* setTickers called by a timer or a response: without effect once the
\* component is unmounted
setTickers(next) == IF page.tickerInputMounted THEN next ELSE tickers

Timer(index, value, kind) == [index |-> index, value |-> value, kind |-> kind]

\* clearTimeout of the debounce timer of a field
clearDebounce(queue, index) ==
    SelectSeq(queue, LAMBDA tm : ~(tm.kind = "debounce" /\ tm.index = index))

\* texts typed into a ticker field, and the fields typed into
TickerTyped == { <<>>, <<" ">>, <<"v", "t", "i">>, <<"4", "X">> }
EditedFields == {1}

handleTickerChange(index, value) ==
    /\ tickers' = updateTickerState(tickers, index,
                     TickerData(value, IF Trim(value) # <<>> THEN "validating" ELSE "empty"))
    /\ IF Trim(value) # <<>>
       THEN /\ timerQueue' = Append(IF debounceTimers[index]
                                       THEN clearDebounce(timerQueue, index)
                                       ELSE timerQueue,
                                    Timer(index, value, "debounce"))
            /\ debounceTimers' = [debounceTimers EXCEPT ![index] = TRUE]
       ELSE /\ timerQueue' = IF debounceTimers[index]
                             THEN clearDebounce(timerQueue, index) ELSE timerQueue
            /\ UNCHANGED debounceTimers
    /\ page' = onValidationComplete(page, tickers, tickers')
    /\ UNCHANGED <<requests, fills, storeVars, viewVars, apiCalls, routeVars, chartVars>>

\* the timer due first fires and runs validateTicker up to its fetch
TimerFires ==
    /\ timerQueue # <<>>
    /\ LET tm == Head(timerQueue)
       IN  IF Trim(tm.value) = <<>>
           THEN /\ tickers' = setTickers(updateTickerState(tickers, tm.index,
                                 TickerData(tickers[tm.index].value, "empty")))
                /\ UNCHANGED requests
           ELSE /\ tickers' = setTickers(updateTickerState(tickers, tm.index,
                                 TickerData(tickers[tm.index].value, "validating")))
                /\ requests' = requests \cup
                      {[index |-> tm.index, ticker |-> Trim(ToUpperCase(tm.value))]}
    /\ timerQueue' = Tail(timerQueue)
    /\ page' = onValidationComplete(page, tickers, tickers')
    /\ UNCHANGED <<debounceTimers, fills, storeVars, viewVars, apiCalls, routeVars, chartVars>>

\* a validation response arrives: validateTicker after its await
ValidationResponse(req) ==
    /\ req \in requests
    /\ requests' = requests \ {req}
    /\ tickers' = setTickers(updateTickerState(tickers, req.index,
                     TickerData(tickers[req.index].value,
                                IF POST(JStr(req.ticker)).valid THEN "valid" ELSE "invalid")))
    /\ page' = onValidationComplete(page, tickers, tickers')
    /\ UNCHANGED <<debounceTimers, timerQueue, fills, storeVars, viewVars, apiCalls, routeVars, chartVars>>

\* the fetch of a validation request fails: the catch branch
ValidationFails(req) ==
    /\ req \in requests
    /\ requests' = requests \ {req}
    /\ tickers' = setTickers(updateTickerState(tickers, req.index,
                     TickerData(tickers[req.index].value, "invalid")))
    /\ page' = onValidationComplete(page, tickers, tickers')
    /\ UNCHANGED <<debounceTimers, timerQueue, fills, storeVars, viewVars, apiCalls, routeVars, chartVars>>

\* TickerInput is unmounted, as when the user follows a link to another
\* page of the application: the cleanup effect clears the timers held in
\* debounceTimers
Unmount ==
    /\ page.tickerInputMounted
    /\ page' = [page EXCEPT !.tickerInputMounted = FALSE]
    /\ timerQueue' = SelectSeq(timerQueue,
                         LAMBDA tm : ~(tm.kind = "debounce" /\ debounceTimers[tm.index]))
    /\ UNCHANGED <<tickers, debounceTimers, requests, fills, storeVars, viewVars,
                   apiCalls, routeVars, chartVars>>

fillDefaults ==
    /\ fills < MaxFills
    /\ fills' = fills + 1
    /\ tickers' = [i \in 1..NumFields |-> TickerData(DEFAULT_TICKERS[i], "validating")]
    /\ timerQueue' = timerQueue \o
          [i \in 1..NumFields |-> Timer(i, DEFAULT_TICKERS[i], "default")]
    /\ page' = onValidationComplete(page, tickers, tickers')
    /\ UNCHANGED <<debounceTimers, requests, storeVars, viewVars, apiCalls, routeVars, chartVars>>

\* ------------------------------------------------------------ BacktestChart
\* a calendar date, as the YYYY-MM-DD text of a data point denotes it
Date(year, month, day) == [year |-> year, month |-> month, day |-> day]

\* the days of the months of the model's years, none of them a leap year
DaysInMonth(month) == IF month = 2 THEN 28 ELSE IF month \in {4, 6, 9, 11} THEN 30 ELSE 31

\* the local calendar day at UTC midnight of a date, west of Greenwich
DayBefore(d) ==
    IF d.day > 1 THEN Date(d.year, d.month, d.day - 1)
    ELSE IF d.month > 1 THEN Date(d.year, d.month - 1, DaysInMonth(d.month - 1))
    ELSE Date(d.year - 1, 12, 31)

\* MM/YY of new Date(dateString), which is UTC midnight read in local time
formatXAxisDate(dateString, westOfGreenwich) ==
    LET date == IF westOfGreenwich THEN DayBefore(dateString) ELSE dateString
    IN  [month |-> date.month, year |-> date.year % 100]

\* a point of a series; the cumulative return in percent of the start value
DataPoint(date, value) ==
    [date |-> date, value |-> value, return |-> (value - 10000) \div 100]

NoChart == [data |-> [equity_curve |-> <<>>, spy_benchmark |-> <<>>],
            state |-> "none", chartData |-> <<>>]

\* the rows handed to the line chart
chartData(data, westOfGreenwich) ==
    [index \in 1..Len(data.equity_curve) |->
        LET faaPoint == data.equity_curve[index]
            spyPoint == IF index <= Len(data.spy_benchmark)
                        THEN data.spy_benchmark[index]
                        ELSE data.spy_benchmark[Len(data.spy_benchmark)]
        IN  [date |-> formatXAxisDate(faaPoint.date, westOfGreenwich),
             faaValue |-> faaPoint.value,
             spyValue |-> spyPoint.value,
             faaReturn |-> faaPoint.return,
             spyReturn |-> spyPoint.return]]

\* BacktestChart rendered with these props
BacktestChart(data, isLoading, westOfGreenwich) ==
    /\ chart' =
          IF isLoading
          THEN [data |-> data, state |-> "loading", chartData |-> <<>>]
          ELSE IF Len(data.equity_curve) = 0 \/ Len(data.spy_benchmark) = 0
          THEN [data |-> data, state |-> "no data", chartData |-> <<>>]
          ELSE [data |-> data, state |-> "chart",
                chartData |-> chartData(data, westOfGreenwich)]
    /\ UNCHANGED <<storeVars, viewVars, tickerVars, pageVars, routeVars>>

\* the dates of the series: the last day of a month, the first of the next
\* month, the first day of a year
SeriesDates == <<Date(2019, 1, 31), Date(2019, 2, 1), Date(2020, 1, 1)>>
SeriesValues == {10000, 10500}

\* the series of at most MaxPoints points in ascending order of date
RECURSIVE SeriesFrom(_, _)
SeriesFrom(first, n) ==
    IF n = 0 THEN {<<>>}
    ELSE {<<>>} \cup
         UNION { { <<DataPoint(SeriesDates[k], v)>> \o rest :
                     rest \in SeriesFrom(k + 1, n - 1) } :
                 k \in first..Len(SeriesDates), v \in SeriesValues }

Series == SeriesFrom(1, MaxPoints)

InitTickerInput ==
    /\ tickers = [i \in 1..NumFields |-> TickerData(<<>>, "empty")]
    /\ debounceTimers = [i \in 1..NumFields |-> FALSE]
    /\ timerQueue = <<>>
    /\ requests = {}
    /\ fills = 0

\* the page is loaded and nothing has been sent
InitPage ==
    /\ page = PageState(HomePage)
    /\ apiCalls = <<>>
    /\ lastResponse = [ticker |-> JNull, status |-> 0, valid |-> FALSE]
    /\ chart = NoChart

\* the page is loaded again: its timers and requests are gone with the old
\* document, TickerInput starts from its initial state, localStorage is kept
ReloadPage ==
    /\ tickers' = [i \in 1..NumFields |-> TickerData(<<>>, "empty")]
    /\ debounceTimers' = [i \in 1..NumFields |-> FALSE]
    /\ timerQueue' = <<>>
    /\ requests' = {}
    /\ fills' = 0
    /\ mounted' = FALSE
    /\ investmentAmount' = <<>>
    /\ inputValue' = <<>>
    /\ view' = NotRendered
    /\ page' = PageState(page.route)
    /\ UNCHANGED <<storeVars, scores, apiCalls, routeVars, chartVars>>

allValid == \A i \in 1..NumFields : tickers[i].state = "valid"

\* ------------------------------------- actions of the two pages and the route
\* the scores that /api/score answers with
ScoresReturned ==
    << ScoreData("VTI", [selected |-> TRUE, cash_proxy |-> FALSE, hold_cash |-> FALSE]),
       ScoreData("SHY", [selected |-> FALSE, cash_proxy |-> FALSE, hold_cash |-> FALSE]) >>

\* the scores of another day
ScoresReturnedLater ==
    << ScoreData("SHY", [selected |-> TRUE, cash_proxy |-> TRUE, hold_cash |-> FALSE]),
       ScoreData("VTI", [selected |-> FALSE, cash_proxy |-> FALSE, hold_cash |-> FALSE]) >>

\* the results that /api/backtest answers with
BacktestsReturned ==
    { [equity_curve |-> <<DataPoint(SeriesDates[1], 10000), DataPoint(SeriesDates[2], v)>>,
       spy_benchmark |-> <<DataPoint(SeriesDates[1], 10000), DataPoint(SeriesDates[2], 10000)>>,
       metrics |-> [cagr |-> v - 10000, mdd |-> 0, sharpe |-> 1]] : v \in {10500, 9500} }

\* a message taken from data.error without the fallback text
errorMessage_noFallback(response, fallback) ==
    CASE response.kind = "network error" -> "Failed to fetch"
      [] response.kind = "bad body" -> "Unexpected token"
      [] OTHER -> response.error

\* the message of the error caught by the page for a response that is not a
\* success: the fetch rejected, the body was no JSON or could not be
\* transformed, or the status or the success field said so
errorMessage(response, fallback) ==
    CASE response.kind = "network error" -> "Failed to fetch"
      [] response.kind = "bad body" -> "Unexpected token"
      [] OTHER -> IF response.error # "" THEN response.error ELSE fallback

\* the responses that are not a success: data.error is present or not
FailedResponses ==
    { [kind |-> k, error |-> e] :
        k \in {"not ok", "success false"}, e \in {"", "Server error"} }
    \cup { [kind |-> k, error |-> ""] : k \in {"network error", "bad body"} }

\* a calculate button that stays enabled while a calculation runs
calculateScores_neverDisabled ==
    /\ page.route = HomePage
    /\ page.allValid
    /\ Len(apiCalls) < MaxCalls
    /\ IF ~page.allValid \/ Len(page.validTickers) # 7
       THEN UNCHANGED <<page, apiCalls>>
       ELSE /\ page' = [page EXCEPT !.isCalculating = TRUE, !.error = NoError]
            /\ apiCalls' = Append(apiCalls, ApiCall("/api/score", page.validTickers))
    /\ UNCHANGED <<storeVars, viewVars, tickerVars, routeVars, chartVars>>

\* a click on the calculate button, which is rendered while allValid and
\* enabled while no calculation runs: calculateScores up to its fetch
calculateScores ==
    /\ page.route = HomePage
    /\ page.allValid
    /\ ~page.isCalculating
    /\ Len(apiCalls) < MaxCalls
    /\ IF ~page.allValid \/ Len(page.validTickers) # 7
       THEN UNCHANGED <<page, apiCalls>>
       ELSE /\ page' = [page EXCEPT !.isCalculating = TRUE, !.error = NoError]
            /\ apiCalls' = Append(apiCalls, ApiCall("/api/score", page.validTickers))
    /\ UNCHANGED <<storeVars, viewVars, tickerVars, routeVars, chartVars>>

\* /api/score answers with scores: calculateScores after its await; the
\* results are rendered, and mounted if they were not
calculateScoresSucceeds(scoresData) ==
    /\ page.route = HomePage
    /\ page.isCalculating
    /\ page' = [page EXCEPT !.isCalculating = FALSE, !.hasCalculated = TRUE]
    /\ scores' = scoresData
    /\ IF mounted
       THEN /\ view' = Render(TRUE, scoresData, investmentAmount)
            /\ UNCHANGED <<mounted, lastOp, investmentAmount, inputValue>>
       ELSE /\ mounted' = TRUE
            /\ LET savedAmount == getAmount(browser, storage)
               IN  /\ lastOp' = Call("getAmount", JNull, savedAmount)
                   /\ IF savedAmount.t # "null"
                      THEN /\ investmentAmount' = NumberToString(savedAmount.v)
                           /\ inputValue' = formatCurrency(savedAmount.v)
                      ELSE UNCHANGED <<investmentAmount, inputValue>>
            /\ view' = Render(TRUE, scoresData, investmentAmount')
    /\ UNCHANGED <<browser, storage, tickerVars, apiCalls, routeVars, chartVars>>

\* /api/score fails or answers with an error: the catch and finally branches
calculateScoresFails(response) ==
    /\ page.route = HomePage
    /\ page.isCalculating
    /\ page' = [page EXCEPT !.isCalculating = FALSE,
                            !.error = errorMessage(response, "Failed to calculate scores")]
    /\ UNCHANGED <<storeVars, viewVars, tickerVars, apiCalls, routeVars, chartVars>>

\* a click on the run button of the backtest page: runBacktest up to its fetch
runBacktest ==
    /\ page.route = BacktestPage
    /\ page.allValid
    /\ ~page.isCalculating
    /\ Len(apiCalls) < MaxCalls
    /\ IF ~page.allValid \/ Len(page.validTickers) # 7
       THEN UNCHANGED <<page, apiCalls>>
       ELSE /\ page' = [page EXCEPT !.isCalculating = TRUE, !.error = NoError]
            /\ apiCalls' = Append(apiCalls, ApiCall("/api/backtest", page.validTickers))
    /\ UNCHANGED <<storeVars, viewVars, tickerVars, routeVars, chartVars>>

\* /api/backtest answers with a result: runBacktest after its await
runBacktestSucceeds(data) ==
    /\ page.route = BacktestPage
    /\ page.isCalculating
    /\ page' = [page EXCEPT !.isCalculating = FALSE,
                            !.backtestData = [equity_curve |-> data.equity_curve,
                                              spy_benchmark |-> data.spy_benchmark,
                                              metrics |-> data.metrics]]
    /\ UNCHANGED <<storeVars, viewVars, tickerVars, apiCalls, routeVars, chartVars>>

\* a catch branch without the finally branch
runBacktestFails_noFinally(response) ==
    /\ page.route = BacktestPage
    /\ page.isCalculating
    /\ page' = [page EXCEPT !.error = errorMessage(response, "Backtest failed")]
    /\ UNCHANGED <<storeVars, viewVars, tickerVars, apiCalls, routeVars, chartVars>>

\* /api/backtest fails or answers with an error: the catch and finally branches
runBacktestFails(response) ==
    /\ page.route = BacktestPage
    /\ page.isCalculating
    /\ page' = [page EXCEPT !.isCalculating = FALSE,
                            !.error = errorMessage(response, "Backtest failed")]
    /\ UNCHANGED <<storeVars, viewVars, tickerVars, apiCalls, routeVars, chartVars>>

\* a client posts a body with this ticker field to /api/validate_ticker
PostValidateTicker(ticker) ==
    /\ LET answer == POST(ticker)
       IN  lastResponse' = [ticker |-> ticker, status |-> answer.status,
                            valid |-> answer.valid]
    /\ UNCHANGED <<storeVars, viewVars, tickerVars, pageVars, chartVars>>

\* the characters of the tickers submitted: a lower-case letter, an
\* upper-case letter, a blank, the dot and a digit
RouteChars == {"v", "A", " ", ".", "4"}

\* longer tickers: five letters, six letters, letters with a class suffix,
\* five letters with a suffix, a suffix of two letters, six letters with a
\* suffix, and a padded lower-case ticker
LongTickers ==
    { <<"A", "B", "D", "E", "G">>,
      <<"A", "B", "D", "E", "G", "H">>,
      <<"B", "N", "D", ".", "A">>,
      <<"A", "B", "D", "E", "G", ".", "H">>,
      <<"B", "N", "D", ".", "A", "B">>,
      <<"A", "B", "D", "E", "G", "H", ".", "I">>,
      <<" ", " ", "v", "t", "i", ".", "a", " ">> }

RouteTickers == SeqsUpTo(RouteChars, MaxTickerLen) \cup LongTickers

\* --------------------------------------------------------- specifications
InitComponents ==
    /\ mounted = FALSE
    /\ investmentAmount = <<>>
    /\ inputValue = <<>>
    /\ view = NotRendered

\* the calculator has stored nothing yet; another application has
InitStore ==
    /\ browser \in BOOLEAN
    /\ storage = [EmptyStorage EXCEPT ![OTHER_APP_DATA] = Item(<<"s", "o", "m", "e">>)]
    /\ lastOp = Call("none", JNull, JNull)
    /\ scores = <<>>
    /\ InitComponents
    /\ InitTickerInput
    /\ InitPage

NextStore ==
    \/ \E arg \in PortfolioArgs : SavePortfolio(arg)
    \/ SavePortfolio(NonArrayArg)
    \/ SavePortfolio(MixedArrayArg)
    \/ GetPortfolio
    \/ \E arg \in AmountArgs : SaveAmount(arg)
    \/ SaveAmount(NonNumberArg)
    \/ GetAmount
    \/ ClearAll

vars ==
    <<browser, storage, lastOp, scores, mounted, investmentAmount, inputValue, view,
      tickers, debounceTimers, timerQueue, requests, fills, page, apiCalls, lastResponse,
      chart>>

\* the storage utility called in any order
SpecStore == InitStore /\ [][NextStore]_vars

InitView ==
    /\ browser = TRUE
    /\ storage = EmptyStorage
    /\ lastOp = Call("none", JNull, JNull)
    /\ \E q \in TickerLists : \E f \in [1..Len(q) -> Flags] :
           scores = [i \in 1..Len(q) |-> ScoreData(q[i], f[i])]
    /\ InitComponents
    /\ InitTickerInput
    /\ InitPage

NextView ==
    \/ Mount
    \/ \E value \in ViewAmountTexts : handleInputChange(value)
    \/ handleInputBlur
    \/ handleInputFocus
    \/ ReloadPage

\* ScoreTable and AllocationResult on one scores array, the amount field in use
SpecView == InitView /\ [][NextView]_vars

InitTickers ==
    /\ browser = TRUE
    /\ storage = EmptyStorage
    /\ lastOp = Call("none", JNull, JNull)
    /\ scores = <<>>
    /\ InitComponents
    /\ InitTickerInput
    /\ InitPage

NextTickers ==
    \/ \E index \in EditedFields : \E value \in TickerTyped :
           handleTickerChange(index, value)
    \/ TimerFires
    \/ \E req \in requests : ValidationResponse(req)
    \/ \E req \in requests : ValidationFails(req)
    \/ fillDefaults
    \/ ReloadPage

\* the ticker fields of the calculator page, typed into and filled by default
SpecTickers == InitTickers /\ [][NextTickers]_vars

NextAnswered ==
    \/ \E index \in EditedFields : \E value \in TickerTyped :
           handleTickerChange(index, value)
    \/ TimerFires
    \/ \E req \in requests : ValidationResponse(req)
    \/ fillDefaults
    \/ ReloadPage

\* the ticker fields with a validation API that answers every request
SpecAnswered == InitTickers /\ [][NextAnswered]_vars

NextUnmount ==
    \/ /\ page.tickerInputMounted
       /\ \E index \in EditedFields : \E value \in TickerTyped :
              handleTickerChange(index, value)
    \/ page.tickerInputMounted /\ fillDefaults
    \/ TimerFires
    \/ \E req \in requests : ValidationResponse(req)
    \/ Unmount

\* the ticker fields until and after TickerInput is unmounted
SpecUnmount == InitTickers /\ [][NextUnmount]_vars

\* ------------------------------------------ a store written by other means
\* texts found under a key of the calculator: no JSON at all, a truncated
\* array, a JSON string, arrays holding a number, null, a negative number,
\* the empty text, and a valid portfolio and a valid amount
StoredTexts ==
    { <<"i", "n", "v", "a", "l", "i", "d", " ", "j", "s", "o", "n">>,
      <<"[">>,
      <<Quote, "a", Quote>>,
      <<"[", "1", "]">>,
      <<"[", Quote, "V", "T", "I", Quote, ",", "1", "]">>,
      <<"n", "u", "l", "l">>,
      <<"-", "5">>,
      <<>>,
      <<"[", Quote, "V", "T", "I", Quote, "]">>,
      <<"5", "0", "0", "0">> }

StoredItems == {NoItem} \cup {Item(text) : text \in StoredTexts}

InitStored ==
    /\ browser \in BOOLEAN
    /\ \E p \in StoredItems : \E a \in StoredItems :
           storage = [[EmptyStorage EXCEPT ![PORTFOLIO] = p] EXCEPT ![AMOUNT] = a]
    /\ lastOp = Call("none", JNull, JNull)
    /\ scores = <<>>
    /\ InitComponents
    /\ InitTickerInput
    /\ InitPage

NextStored ==
    \/ GetPortfolio
    \/ GetAmount
    \/ SavePortfolio(ArrayOfStrings(<< <<"V", "E", "A">> >>))
    \/ SaveAmount(JNum(Fin(10000, 0)))
    \/ ClearAll

\* the storage utility on a store that holds whatever was written before
SpecStored == InitStored /\ [][NextStored]_vars

\* ------------------------------------------------- the amount field in use
\* texts typed into the amount field: nothing, letters, zero, a formatted
\* amount, a plain amount, an amount with cents, an amount with three
\* decimals, and a negative amount
AmountTexts ==
    { <<>>,
      <<"a", "b", "c">>,
      <<"0">>,
      <<"$", "5", ",", "0", "0", "0", ".", "0", "0">>,
      <<"5", "0", "0", "0">>,
      <<"1", "0", "0", "0", ".", "5">>,
      <<"1", "0", "0", "0", ".", "4", "5", "6">>,
      <<"-", "1", "0", "0", "0">> }

\* the scores on display while the field is used: one asset, and an asset
\* beside a position held in cash and an asset that is not selected
AmountScores ==
    { << ScoreData("VTI", [selected |-> TRUE, cash_proxy |-> FALSE, hold_cash |-> FALSE]) >>,
      << ScoreData("VTI", [selected |-> TRUE, cash_proxy |-> FALSE, hold_cash |-> FALSE]),
         ScoreData("VEA", [selected |-> TRUE, cash_proxy |-> FALSE, hold_cash |-> TRUE]),
         ScoreData("VWO", [selected |-> FALSE, cash_proxy |-> FALSE, hold_cash |-> FALSE]) >> }

\* what an earlier visit left under the amount key
EarlierAmounts == {NoItem, Item(<<"0">>), Item(<<"2", "5", "0", ".", "7", "5">>)}

InitAmount ==
    /\ browser = TRUE
    /\ \E a \in EarlierAmounts : storage = [EmptyStorage EXCEPT ![AMOUNT] = a]
    /\ lastOp = Call("none", JNull, JNull)
    /\ scores \in AmountScores
    /\ InitComponents
    /\ InitTickerInput
    /\ InitPage

NextAmount ==
    \/ Mount
    \/ \E value \in AmountTexts : handleInputChange(value)
    \/ handleInputBlur
    \/ handleInputFocus
    \/ ReloadPage

\* AllocationResult with its amount field typed into, left, entered and the
\* page loaded again
SpecAmount == InitAmount /\ [][NextAmount]_vars

InitPages ==
    /\ browser = TRUE
    /\ storage = EmptyStorage
    /\ lastOp = Call("none", JNull, JNull)
    /\ scores = <<>>
    /\ InitComponents
    /\ InitTickerInput
    /\ page \in {PageState(route) : route \in Routes}
    /\ apiCalls = <<>>
    /\ lastResponse = [ticker |-> JNull, status |-> 0, valid |-> FALSE]
    /\ chart = NoChart

NextPages ==
    \/ \E index \in EditedFields : \E value \in TickerTyped :
           handleTickerChange(index, value)
    \/ TimerFires
    \/ \E req \in requests : ValidationResponse(req)
    \/ \E req \in {r \in requests : r.index \in EditedFields} : ValidationFails(req)
    \/ /\ fills = 0 \/ (timerQueue = <<>> /\ requests = {})
       /\ fillDefaults
    \/ apiCalls = <<>> /\ calculateScores
    \/ calculateScoresSucceeds(ScoresReturned)
    \/ calculateScoresFails([kind |-> "network error", error |-> ""])
    \/ apiCalls = <<>> /\ runBacktest
    \/ \E data \in BacktestsReturned : runBacktestSucceeds(data)
    \/ runBacktestFails([kind |-> "network error", error |-> ""])
    \/ ReloadPage

\* the calculator page and the backtest page: tickers entered and validated,
\* the button pressed, the answer received; the first press of the
\* fill-defaults button comes at any moment, a further press after the
\* validations in flight have settled; the first request of the page is
\* followed
SpecPages == InitPages /\ [][NextPages]_vars

NextRequests ==
    \/ handleTickerChange(1, <<"v", "t", "i">>)
    \/ /\ fills = 0 \/ (timerQueue = <<>> /\ requests = {})
       /\ fillDefaults
    \/ TimerFires
    \/ \E req \in requests : ValidationResponse(req)
    \/ calculateScores
    \/ \E scoresData \in {ScoresReturned, ScoresReturnedLater} :
           calculateScoresSucceeds(scoresData)
    \/ \E response \in FailedResponses : calculateScoresFails(response)
    \/ runBacktest
    \/ \E data \in BacktestsReturned : runBacktestSucceeds(data)
    \/ \E response \in FailedResponses : runBacktestFails(response)
    \/ ReloadPage

\* either page with its fields filled by default: one request after another,
\* each answered by a success or by one of the failures; a further press of
\* the fill-defaults button comes after the validations in flight have settled
SpecRequests == InitPages /\ [][NextRequests]_vars

\* the fetch of a request settles: its response or its failure is handled
FetchSettles ==
    \/ \E scoresData \in {ScoresReturned, ScoresReturnedLater} :
           calculateScoresSucceeds(scoresData)
    \/ \E response \in FailedResponses : calculateScoresFails(response)
    \/ \E data \in BacktestsReturned : runBacktestSucceeds(data)
    \/ \E response \in FailedResponses : runBacktestFails(response)

\* the requests of either page, every fetch settling in the end
SpecRequestsSettle == SpecRequests /\ WF_vars(FetchSettles)

InitRoute ==
    /\ browser = TRUE
    /\ storage = EmptyStorage
    /\ lastOp = Call("none", JNull, JNull)
    /\ scores = <<>>
    /\ InitComponents
    /\ InitTickerInput
    /\ InitPage

NextRoute ==
    \/ \E text \in RouteTickers : PostValidateTicker(JStr(text))
    \/ PostValidateTicker(JNull)
    \/ PostValidateTicker(JNum(Fin(123, 0)))

\* POST /api/validate_ticker called with one body after another
SpecRoute == InitRoute /\ [][NextRoute]_vars

InitChart ==
    /\ browser = TRUE
    /\ storage = EmptyStorage
    /\ lastOp = Call("none", JNull, JNull)
    /\ scores = <<>>
    /\ InitComponents
    /\ InitTickerInput
    /\ InitPage

NextChart ==
    \E equity \in Series : \E spy \in Series :
        \E isLoading \in BOOLEAN : \E westOfGreenwich \in BOOLEAN :
            BacktestChart([equity_curve |-> equity, spy_benchmark |-> spy],
                          isLoading, westOfGreenwich)

\* BacktestChart rendered with one backtest result after another
SpecChart == InitChart /\ [][NextChart]_vars

\* ============================================================= properties

RECURSIVE RatSum(_)
RatSum(rs) == IF rs = <<>> THEN Rat(0, 1) ELSE RatAdd(Head(rs), RatSum(Tail(rs)))

Positions(t) == {i \in 1..Len(view.tickers) : view.tickers[i] = t}
Entries(t) == {j \in 1..Len(view.allocations) : view.allocations[j].ticker = t}

\* C1: whenever an allocation is shown (amount > 0, at least one selected
\* position), the dollar amounts of the entries sum to the investment amount
\* and their percentages to 100, consolidated or not.
C1_AllocationSumsToAmount ==
    view.shown =>
        /\ RatSum([j \in 1..Len(view.allocations) |-> view.allocations[j].amount])
              = RatOfNumber(view.amount)
        /\ RatSum([j \in 1..Len(view.allocations) |-> view.allocations[j].percentage])
              = Rat(100, 1)

\* three positions, two of them consolidated into one entry, of an amount
\* that three does not divide
C1_Witness ==
    /\ view.shown
    /\ Len(view.tickers) = 3
    /\ Len(view.allocations) = 2
    /\ \E j \in 1..Len(view.allocations) : view.allocations[j].amount.d # 1

\* C2: positions are weighted equally, not symbols: a symbol that stands for
\* k of the n positions has exactly one entry, of amount k * amount / n and
\* percentage k * 100 / n, and no entry is for a symbol without a position.
C2_EqualWeightPerPosition ==
    view.shown =>
        LET n == Len(view.tickers)
            a == RatOfNumber(view.amount)
        IN  /\ \A i \in 1..n :
                  LET t == view.tickers[i]
                      k == Cardinality(Positions(t))
                  IN  /\ Cardinality(Entries(t)) = 1
                      /\ \A j \in Entries(t) :
                            /\ view.allocations[j].amount = Rat(k * a.n, n * a.d)
                            /\ view.allocations[j].percentage = Rat(k * 100, n)
            /\ \A j \in 1..Len(view.allocations) :
                  Positions(view.allocations[j].ticker) # {}

\* the proxy stands for two of three positions and an asset for the third
C2_Witness ==
    /\ view.shown
    /\ Len(view.tickers) = 3
    /\ Cardinality(Positions(SHY)) = 2
    /\ \E j \in Entries(SHY) : view.allocations[j].percentage = Rat(200, 3)
    /\ \E t \in Universe \ {SHY} : Cardinality(Entries(t)) = 1

SelectedIndexes == {i \in 1..Len(scores) : scores[i].selected}

\* the place among the selected scores of the selected score at index i
PositionOf(i) == Cardinality({j \in SelectedIndexes : j <= i})

ExpectedOutcome(score) ==
    IF score.hold_cash THEN CASH
    ELSE IF score.cash_proxy /\ ~score.hold_cash THEN SHY
    ELSE score.ticker

\* C3: each selected score resolves to one outcome: cash when hold_cash is
\* set, the SHY proxy when cash_proxy is set and hold_cash is not, the asset
\* otherwise; a score with both flags is allocated to cash and carries the
\* cash badge and not the proxy badge, in the allocation view and in the table.
C3_ThreeWayDisposition ==
    mounted =>
        \A i \in SelectedIndexes :
            LET score == scores[i]
                t == view.tickers[PositionOf(i)]
                rows == {r \in 1..Len(view.rows) : view.rows[r].ticker = score.ticker}
            IN  /\ t = ExpectedOutcome(score)
                /\ Cardinality(rows) = 1
                /\ \A r \in rows :
                      /\ "hold_cash" \in view.rows[r].badges <=> score.hold_cash
                      /\ "cash_proxy" \in view.rows[r].badges
                            <=> (score.cash_proxy /\ ~score.hold_cash)
                /\ (score.hold_cash /\ score.cash_proxy /\ view.shown) =>
                      /\ t = CASH
                      /\ \A j \in Entries(t) :
                            view.badges[j] = {"hold_cash"}
                      /\ Entries(t) # {}

\* a selected score with both flags is on display with an amount entered
C3_Witness ==
    /\ view.shown
    /\ \E i \in SelectedIndexes : scores[i].hold_cash /\ scores[i].cash_proxy
    /\ \E i \in SelectedIndexes : ~scores[i].hold_cash /\ scores[i].cash_proxy
    /\ \E i \in SelectedIndexes : ~scores[i].hold_cash /\ ~scores[i].cash_proxy

C5_SharesForEveryNonCashEntry ==
    view.shown =>
        \A j \in 1..Len(view.allocations) :
            LET entry == view.allocations[j]
            IN  IF entry.ticker = CASH THEN ~view.shares[j].shown
                ELSE /\ view.shares[j].shown
                     /\ view.shares[j].shares
                           = RatDivInt(entry.amount, PriceOf(entry.ticker))

\* C6: the table lists the best score first: rows are in order of increasing
\* total_score, so the first row has the lowest total_score.
C6_RowsBestFirst ==
    mounted =>
        \A r \in 1..Len(view.rows) : \A q \in 1..Len(view.rows) :
            r < q => view.rows[r].total_score <= view.rows[q].total_score

IsStringArrayArg(arg) == IsArray(arg) /\ EveryString(arg)

\* t with each element trimmed and upper-cased, the empty ones left out
TrimmedUpperNonEmpty(t) ==
    SelectSeq([i \in 1..Len(t) |-> ToUpperCase(Trim(t[i]))], LAMBDA x : x # <<>>)

\* C7: the ticker list entered is persisted and restored on a later visit:
\* when all seven fields are valid and the page is loaded again, the seven
\* fields hold the tickers they held before.
C7_TickersRestoredOnReload ==
    [][(allValid /\ ReloadPage)
          => \A i \in 1..NumFields : tickers'[i].value = tickers[i].value]_vars

\* C8: in a browser, savePortfolio(t) of an array of strings t returns true
\* and getPortfolio() then returns t with each element trimmed and
\* upper-cased and the elements empty after trimming removed, order and
\* duplicates kept; for the empty array it returns the empty array, not null.
C8_SavePortfolioRoundTrip ==
    (browser /\ lastOp.op = "savePortfolio" /\ IsStringArrayArg(lastOp.arg)) =>
        /\ lastOp.ret = JBool(TRUE)
        /\ LET got == getPortfolio(browser, storage)
           IN  /\ got.t = "arr"
               /\ got = ArrayOfStrings(TrimmedUpperNonEmpty(StringsOf(lastOp.arg)))

\* a save of [" vti ", "  "]: one element is trimmed and upper-cased, one dropped
C8_Witness ==
    /\ browser
    /\ lastOp.op = "savePortfolio"
    /\ IsStringArrayArg(lastOp.arg)
    /\ StringsOf(lastOp.arg) = << <<" ", "v", "t", "i", " ">>, <<" ", " ">> >>
    /\ getPortfolio(browser, storage) = ArrayOfStrings(<< <<"V", "T", "I">> >>)

\* the empty array is stored and read back as the empty array
C8_WitnessEmpty ==
    /\ browser
    /\ lastOp = Call("savePortfolio", JArr(<<>>), JBool(TRUE))
    /\ getPortfolio(browser, storage) = JArr(<<>>)

\* C9: in a browser, for every finite number a >= 0, saveAmount(a) returns
\* true and getAmount() then returns exactly a.
C9_SaveAmountRoundTrip ==
    (browser /\ lastOp.op = "saveAmount" /\ lastOp.arg.t = "num"
        /\ lastOp.arg.v.k = "fin") =>
        /\ lastOp.ret = JBool(TRUE)
        /\ LET got == getAmount(browser, storage)
           IN  got.t = "num" /\ got.v = lastOp.arg.v

\* 0 has been saved and is read back as 0
C9_Witness ==
    /\ browser
    /\ lastOp = Call("saveAmount", JNum(Fin(0, 0)), JBool(TRUE))
    /\ getAmount(browser, storage) = JNum(Fin(0, 0))

\* C10: saveAmount(Infinity) is rejected: it returns false and leaves the
\* stored amount as it was.
C10_InfinityRejected ==
    [][(lastOp'.op = "saveAmount" /\ lastOp'.arg.t = "num" /\ lastOp'.arg.v = Infinity)
         => (lastOp'.ret = JBool(FALSE) /\ storage'[AMOUNT] = storage[AMOUNT])]_vars

\* the arguments the validation of the two save functions is about
InvalidPortfolioArg(arg) == ~IsArray(arg) \/ ~EveryString(arg)
InvalidAmountArg(arg) == arg.t # "num" \/ arg.v.k \in {"nan", "neg", "ninf"}

\* C11: an invalid argument is rejected without touching the store:
\* savePortfolio with a non-array or an array holding a non-string, and
\* saveAmount with a negative number, NaN or a non-number, return false, and
\* getPortfolio() and getAmount() return afterwards what they returned before.
C11_InvalidArgumentRejected ==
    [][(\/ lastOp'.op = "savePortfolio" /\ InvalidPortfolioArg(lastOp'.arg)
        \/ lastOp'.op = "saveAmount" /\ InvalidAmountArg(lastOp'.arg))
          => /\ lastOp'.ret = JBool(FALSE)
             /\ getPortfolio(browser', storage') = getPortfolio(browser, storage)
             /\ getAmount(browser', storage') = getAmount(browser, storage)]_vars

\* with a portfolio and an amount in the store, an array holding a non-string
\* has been handed to savePortfolio
C11_Witness ==
    /\ browser
    /\ lastOp.op = "savePortfolio"
    /\ IsArray(lastOp.arg) /\ ~EveryString(lastOp.arg)
    /\ lastOp.ret = JBool(FALSE)
    /\ getPortfolio(browser, storage).t = "arr"
    /\ getAmount(browser, storage).t = "num"

\* with a portfolio and an amount in the store, a negative amount has been
\* handed to saveAmount
C11_WitnessAmount ==
    /\ browser
    /\ lastOp.op = "saveAmount"
    /\ lastOp.arg.t = "num" /\ lastOp.arg.v.k = "neg"
    /\ lastOp.ret = JBool(FALSE)
    /\ getPortfolio(browser, storage).t = "arr"
    /\ getAmount(browser, storage).t = "num"

\* both getters answer null
BothNull(br, st) == getPortfolio(br, st).t = "null" /\ getAmount(br, st).t = "null"

\* the call op is a save that reported success
SuccessfulSave(op) == op.op \in {"savePortfolio", "saveAmount"} /\ op.ret = JBool(TRUE)

\* C12: in a browser, after any sequence of saves clearAll() returns true,
\* also when nothing was stored, and getPortfolio() and getAmount() both
\* return null from then on until the next successful save.
C12_ClearAllEmptiesStore ==
    [][/\ (browser' /\ lastOp'.op = "clearAll")
             => (lastOp'.ret = JBool(TRUE) /\ BothNull(browser', storage'))
       /\ (browser /\ BothNull(browser, storage) /\ ~SuccessfulSave(lastOp'))
             => BothNull(browser', storage')]_vars

\* clearAll has returned true in a browser whose localStorage still holds
\* the item of another application
C12_Witness ==
    /\ browser
    /\ lastOp = Call("clearAll", JNull, JBool(TRUE))
    /\ storage[OTHER_APP_DATA].has
    /\ BothNull(browser, storage)

\* C13: every storage operation changes only its own keys: savePortfolio
\* leaves the amount and every other item as they were, saveAmount leaves the
\* portfolio and every other item as they were, clearAll leaves every item
\* but the portfolio and the amount as it was, and the getters change nothing.
C13_OperationsChangeOnlyTheirKeys ==
    [][/\ lastOp'.op = "savePortfolio"
             => \A k \in LocalStorageKeys \ {PORTFOLIO} : storage'[k] = storage[k]
       /\ lastOp'.op = "saveAmount"
             => \A k \in LocalStorageKeys \ {AMOUNT} : storage'[k] = storage[k]
       /\ lastOp'.op = "clearAll"
             => \A k \in LocalStorageKeys \ STORAGE_KEYS : storage'[k] = storage[k]
       /\ lastOp'.op \in {"getPortfolio", "getAmount"} => storage' = storage]_vars

\* an amount has been saved beside a stored portfolio and the item of
\* another application
C13_Witness ==
    /\ browser
    /\ lastOp.op = "saveAmount"
    /\ lastOp.ret = JBool(TRUE)
    /\ storage[PORTFOLIO].has
    /\ storage[AMOUNT].has
    /\ storage[OTHER_APP_DATA].has

\* everything has been cleared and the item of another application is there
C13_WitnessClear ==
    /\ browser
    /\ lastOp.op = "clearAll"
    /\ ~storage[PORTFOLIO].has
    /\ ~storage[AMOUNT].has
    /\ storage[OTHER_APP_DATA] = Item(<<"s", "o", "m", "e">>)

\* the item holds the JSON text of an array of strings
HoldsStringArray(it) ==
    /\ it.has
    /\ LET parsed == JSONParse(it.text)
       IN  parsed.t = "arr" /\ \A i \in 1..Len(parsed.v) : parsed.v[i].t = "str"

\* the item holds the JSON text of a number >= 0
HoldsNonNegativeNumber(it) ==
    /\ it.has
    /\ LET parsed == JSONParse(it.text)
       IN  parsed.t = "num" /\ parsed.v.k \in {"fin", "inf"}

\* C14: no storage function throws: without browser storage (server-side
\* rendering) the getters return null and savePortfolio, saveAmount and
\* clearAll return false; in a browser, when the stored text is not valid
\* JSON, or not an array of strings (portfolio), or not a number >= 0
\* (amount), the getter returns null.
C14_StorageNeverThrows ==
    /\ lastOp.ret.t # "err"
    /\ getPortfolio(browser, storage).t # "err"
    /\ getAmount(browser, storage).t # "err"
    /\ ~browser =>
          /\ getPortfolio(browser, storage).t = "null"
          /\ getAmount(browser, storage).t = "null"
          /\ lastOp.op \in {"getPortfolio", "getAmount"} => lastOp.ret.t = "null"
          /\ lastOp.op \in {"savePortfolio", "saveAmount", "clearAll"}
                => lastOp.ret = JBool(FALSE)
    /\ browser =>
          /\ ~HoldsStringArray(storage[PORTFOLIO])
                => getPortfolio(browser, storage).t = "null"
          /\ ~HoldsNonNegativeNumber(storage[AMOUNT])
                => getAmount(browser, storage).t = "null"
          /\ (lastOp.op = "getPortfolio" /\ ~HoldsStringArray(storage[PORTFOLIO]))
                => lastOp.ret.t = "null"
          /\ (lastOp.op = "getAmount" /\ ~HoldsNonNegativeNumber(storage[AMOUNT]))
                => lastOp.ret.t = "null"

\* in a browser getPortfolio has read a text that is no JSON and getAmount
\* would read a negative number
C14_Witness ==
    /\ browser
    /\ lastOp = Call("getPortfolio", JNull, JNull)
    /\ storage[PORTFOLIO].has
    /\ JSONParse(storage[PORTFOLIO].text).t = "err"
    /\ storage[AMOUNT] = Item(<<"-", "5">>)

\* on the server a save has been refused while the store is not read
C14_WitnessServer ==
    /\ ~browser
    /\ lastOp.op = "saveAmount"
    /\ lastOp.ret = JBool(FALSE)

\* the number a text of the amount field denotes, its currency symbol,
\* thousands separators and blanks ignored
AmountTyped(text) == ParseFloat(SelectSeq(text, LAMBDA c : c \notin {"$", ",", " "}))

HasDigit(text) == \E i \in 1..Len(text) : IsDigit(text[i])

\* C15: when the amount field loses focus: if its text denotes an amount > 0
\* (currency symbol and thousands separators ignored), saveAmount is called
\* with exactly that amount and the field shows it as USD with two decimals;
\* if the text holds no digit or denotes 0, the field and the allocation
\* amount are cleared and saveAmount is not called.
C15_BlurSavesOrClears ==
    [][handleInputBlur =>
          LET typed == AmountTyped(inputValue)
          IN  /\ IsPositive(typed) =>
                    /\ lastOp' = Call("saveAmount", JNum(typed), JBool(TRUE))
                    /\ getAmount(browser', storage') = JNum(typed)
                    /\ inputValue' = formatCurrency(typed)
              /\ (~HasDigit(inputValue) \/ (typed.k = "fin" /\ typed.m = 0)) =>
                    /\ inputValue' = <<>>
                    /\ investmentAmount' = <<>>
                    /\ view'.amount = Fin(0, 0)
                    /\ ~view'.shown
                    /\ UNCHANGED <<lastOp, storage>>]_vars

\* the field was left holding 1000.5: that amount is saved and the field
\* shows $1,000.50
C15_Witness ==
    /\ mounted
    /\ lastOp = Call("saveAmount", JNum(Fin(10005, 1)), JBool(TRUE))
    /\ inputValue = <<"$", "1", ",", "0", "0", "0", ".", "5", "0">>
    /\ view.shown
    /\ storage[AMOUNT] = Item(<<"1", "0", "0", "0", ".", "5">>)

\* the field was left holding letters after an amount had been saved: the
\* field and the amount are cleared, the saved amount stays
C15_WitnessCleared ==
    /\ mounted
    /\ inputValue = <<>>
    /\ investmentAmount = <<>>
    /\ lastOp.op = "saveAmount"
    /\ storage[AMOUNT].has

\* C16: a negative amount is invalid input: when the field loses focus
\* holding a negative value such as -1000, the field is emptied, no
\* allocation is shown and nothing is saved.
C16_NegativeAmountCleared ==
    [][(handleInputBlur /\ AmountTyped(inputValue).k = "neg") =>
          /\ inputValue' = <<>>
          /\ ~view'.shown
          /\ UNCHANGED <<lastOp, storage>>]_vars

\* C17: the investment amount survives a reload: when an amount v is in the
\* store at mount, the field shows v as USD and the allocation is computed
\* from v; so the amount saved when the field was left is the amount in use
\* after the component is mounted again.
C17_SavedAmountLoadedOnMount ==
    [][Mount =>
          LET saved == getAmount(browser, storage)
          IN  /\ saved.t = "num" =>
                    /\ inputValue' = formatCurrency(saved.v)
                    /\ view'.amount = saved.v
                    /\ view'.allocations
                          = calculateAllocation(saved.v, getAllocationTickers(scores))
              /\ (lastOp.op = "saveAmount" /\ lastOp.ret = JBool(TRUE)) =>
                    /\ view'.amount = lastOp.arg.v
                    /\ inputValue' = formatCurrency(lastOp.arg.v)]_vars

\* 5000 was saved when the field was left, the page was loaded again and
\* the component mounted: the field shows $5,000.00 and 5000 is allocated
C17_Witness ==
    /\ mounted
    /\ lastOp = Call("getAmount", JNull, JNum(Fin(5000, 0)))
    /\ inputValue = <<"$", "5", ",", "0", "0", "0", ".", "0", "0">>
    /\ view.amount = Fin(5000, 0)
    /\ view.shown

\* the amount of an earlier visit, 250.75, is shown and allocated at mount
C17_WitnessEarlier ==
    /\ mounted
    /\ lastOp = Call("getAmount", JNull, JNum(Fin(25075, 2)))
    /\ inputValue = <<"$", "2", "5", "0", ".", "7", "5">>
    /\ view.amount = Fin(25075, 2)
    /\ view.shown


\* C18: the calculator page and the backtest page send a request to
\* /api/score or /api/backtest only while all seven ticker fields are in the
\* valid state, the request goes to the url of the page and carries exactly
\* the seven tickers of the fields; a step taken in any other state leaves
\* the requests sent as they were.
C18_RequestOnlyWhileAllValid ==
    [][ /\ apiCalls' # apiCalls =>
             /\ allValid
             /\ Len(validTickersOf(tickers)) = 7
             /\ apiCalls' = Append(apiCalls,
                    ApiCall(IF page.route = HomePage THEN "/api/score"
                                                     ELSE "/api/backtest",
                            validTickersOf(tickers)))
        /\ ~allValid => apiCalls' = apiCalls ]_vars

\* a request with seven tickers is on its way while the seven fields are valid
C18_Witness ==
    /\ apiCalls # <<>>
    /\ Len(apiCalls[1].tickers) = 7
    /\ page.isCalculating
    /\ allValid


\* the longest run of letters that a text starts with
LeadingLetters(t) ==
    CHOOSE k \in 0..Len(t) :
        /\ \A i \in 1..k : t[i] \in UpperLetters
        /\ k < Len(t) => t[k + 1] \notin UpperLetters

\* 1 to 5 letters, optionally followed by a dot and one letter
WellFormedTicker(t) ==
    LET k == LeadingLetters(t)
        rest == SubSeq(t, k + 1, Len(t))
    IN  /\ k \in 1..5
        /\ \/ rest = <<>>
           \/ Len(rest) = 2 /\ rest[1] = "." /\ rest[2] \in UpperLetters

\* C19: POST /api/validate_ticker answers valid:true exactly when the
\* submitted ticker, trimmed and upper-cased, is 1 to 5 letters optionally
\* followed by a dot and one letter; any other ticker that is not empty after
\* trimming gets status 200 with valid:false, and a missing or empty ticker
\* gets status 400 with valid:false.
C19_ValidateTickerAnswer ==
    lastResponse.status # 0 =>
        IF lastResponse.ticker.t = "null"
        THEN lastResponse.status = 400 /\ ~lastResponse.valid
        ELSE IF lastResponse.ticker.t = "str"
        THEN LET t == ToUpperCase(Trim(lastResponse.ticker.v))
             IN  /\ lastResponse.valid <=> WellFormedTicker(t)
                 /\ t = <<>> => lastResponse.status = 400
                 /\ t # <<>> => lastResponse.status = 200
        ELSE ~lastResponse.valid

\* a padded lower-case ticker with a class suffix was answered valid:true
C19_Witness ==
    /\ lastResponse.ticker = JStr(<<" ", " ", "v", "t", "i", ".", "a", " ">>)
    /\ lastResponse.status = 200
    /\ lastResponse.valid

\* a ticker of six letters was answered 200 with valid:false
C19_WitnessTooLong ==
    /\ lastResponse.ticker = JStr(<<"A", "B", "D", "E", "G", "H">>)
    /\ lastResponse.status = 200
    /\ ~lastResponse.valid

\* a ticker of blanks was answered 400
C19_WitnessBlank ==
    /\ lastResponse.ticker = JStr(<<" ", " ">>)
    /\ lastResponse.status = 400


\* the timers of a field that have not fired yet
PendingTimers(queue, index) == {k \in 1..Len(queue) : queue[k].index = index}

\* C20: ticker validation is debounced per field: every change to a field
\* cancels that field's pending timer, so at most one timer is pending per
\* field, and the value that a firing timer sends to the validation API is
\* the last value given to the field.
C20_DebouncedPerField ==
    [][ /\ \A index \in 1..NumFields :
              Cardinality(PendingTimers(timerQueue', index)) <= 1
        /\ TimerFires =>
              \A req \in requests' \ requests :
                  req.ticker = Trim(ToUpperCase(tickers[req.index].value)) ]_vars


\* C21: for a non-empty strategy series and a non-empty benchmark series the
\* chart has one row per strategy point, and every row pairs the strategy
\* value with the benchmark value of the same date.
C21_RowsPairSameDate ==
    chart.state = "chart" =>
        /\ Len(chart.chartData) = Len(chart.data.equity_curve)
        /\ \A index \in 1..Len(chart.chartData) :
              /\ chart.chartData[index].faaValue = chart.data.equity_curve[index].value
              /\ \E k \in 1..Len(chart.data.spy_benchmark) :
                    /\ chart.data.spy_benchmark[k].date = chart.data.equity_curve[index].date
                    /\ chart.data.spy_benchmark[k].value = chart.chartData[index].spyValue


\* the result that a page has on display
DisplayedResult ==
    IF page.route = HomePage
    THEN [shown |-> page.hasCalculated /\ scores # <<>>, scores |-> scores,
          backtestData |-> NoBacktestData]
    ELSE [shown |-> page.backtestData # NoBacktestData, scores |-> <<>>,
          backtestData |-> page.backtestData]

\* C22: a score or backtest request completes or fails as a whole: a
\* response that is a network error, a status that is not OK, a body with
\* success=false or a body that cannot be read sets an error message and
\* leaves the result on display as it was; the result on display changes,
\* on a loaded page, only with a successful response, to all fields of that
\* response, and then no error is shown.
C22_RequestCompletesOrFailsAsAWhole ==
    [][ /\ (\E response \in FailedResponses :
                calculateScoresFails(response) \/ runBacktestFails(response))
           => /\ page'.error # NoError
              /\ DisplayedResult' = DisplayedResult
              /\ view' = view
        /\ (DisplayedResult' # DisplayedResult /\ ~ReloadPage)
           => /\ page.isCalculating /\ ~page'.isCalculating
              /\ page'.error = NoError
              /\ IF page.route = HomePage
                 THEN page'.hasCalculated /\ scores' \in {ScoresReturned, ScoresReturnedLater}
                 ELSE page'.backtestData \in BacktestsReturned ]_vars

\* a request failed while the result of an earlier request was on display
C22_Witness ==
    /\ page.error # NoError
    /\ ~page.isCalculating
    /\ DisplayedResult.shown
    /\ Len(apiCalls) = 2

\* a second successful request replaced the result of the first
C22_WitnessReplaced ==
    /\ page.error = NoError
    /\ ~page.isCalculating
    /\ scores = ScoresReturnedLater
    /\ Len(apiCalls) = 2


\* C27: at most one request of a page is in flight: the click that sends a
\* request sets the loading flag, which disables the button; while the flag
\* is set no request is sent; and the flag is cleared only when the response
\* or the failure of that request is handled (or the page is loaded again).
C27_OneRequestInFlight ==
    [][ /\ apiCalls' # apiCalls
           => /\ ~page.isCalculating
              /\ page'.isCalculating
              /\ Len(apiCalls') = Len(apiCalls) + 1
        /\ page.isCalculating => apiCalls' = apiCalls
        /\ (page.isCalculating /\ ~page'.isCalculating)
           => \/ ReloadPage
              \/ \E scoresData \in {ScoresReturned, ScoresReturnedLater} :
                     calculateScoresSucceeds(scoresData)
              \/ \E data \in BacktestsReturned : runBacktestSucceeds(data)
              \/ \E response \in FailedResponses :
                     calculateScoresFails(response) \/ runBacktestFails(response) ]_vars

\* a request is in flight while every field is valid and a further request
\* is within the bound: only the disabled button holds a second click back
C27_Witness ==
    /\ page.isCalculating
    /\ page.allValid
    /\ Len(page.validTickers) = 7
    /\ Len(apiCalls) = 1

\* a second request was sent after the first had been answered
C27_WitnessSecond ==
    /\ page.isCalculating
    /\ Len(apiCalls) = 2


\* C28: the loading flag always returns to false: a request that the page
\* starts sets isCalculating (isRunning), and once its fetch settles, by a
\* success, by an error response or by a thrown error, the flag is false
\* again.
C28_LoadingFlagReturnsToFalse ==
    /\ [][apiCalls' # apiCalls => page'.isCalculating]_vars
    /\ [][FetchSettles => ~page'.isCalculating]_vars
    /\ [](page.isCalculating => <>(~page.isCalculating))

\* a failed backtest request has been handled and the flag is false again
C28_Witness ==
    /\ page.route = BacktestPage
    /\ apiCalls # <<>>
    /\ page.error # NoError
    /\ ~page.isCalculating


\* C23: after the fill-defaults button is pressed and nothing is changed
\* afterwards, the seven fields hold the default tickers in their order and,
\* once every pending timer has fired and every validation response has
\* arrived, all seven fields are valid, whatever was typed before the press
\* and in whatever order the responses arrive.
C23_DefaultsEndValid ==
    /\ [][fillDefaults =>
            \A i \in 1..NumFields : tickers'[i].value = DEFAULT_TICKERS[i]]_vars
    /\ []( ( /\ fills > 0
             /\ \A i \in 1..NumFields : tickers[i].value = DEFAULT_TICKERS[i]
             /\ timerQueue = <<>>
             /\ requests = {} )
           => allValid )


\* no timer and no validation request of a field is pending
Settled(index) ==
    /\ PendingTimers(timerQueue, index) = {}
    /\ \A req \in requests : req.index # index

\* C25: the state of a ticker field reflects its current value: whenever no
\* timer and no validation request is pending for the field, it is valid only
\* if the validation API judges the value it now holds to be valid, empty
\* exactly when its value is blank, and invalid otherwise.
C25_StateReflectsValue ==
    \A index \in 1..NumFields :
        Settled(index) =>
            LET field == tickers[index]
            IN  /\ field.state \in {"valid", "empty", "invalid"}
                /\ field.state = "valid" =>
                       POST(JStr(field.value)).valid
                /\ field.state = "empty" <=> Trim(field.value) = <<>>

\* C26: no score or backtest request contains an empty ticker: in every
\* state in which the page may send a request, each of the seven tickers
\* reported by TickerInput is a non-empty symbol, and so is each ticker of
\* every request sent.
C26_NoEmptyTickerInRequest ==
    /\ (page.allValid /\ Len(page.validTickers) = 7) =>
           \A i \in 1..7 : page.validTickers[i] # <<>>
    /\ \A k \in 1..Len(apiCalls) :
           \A i \in 1..Len(apiCalls[k].tickers) : apiCalls[k].tickers[i] # <<>>


\* C24: unmounting TickerInput cancels all of its timers: after the component
\* is unmounted no timer that it started is pending or fires, so no
\* validation request is issued after the unmount.
C24_UnmountCancelsTimers ==
    /\ [][Unmount => timerQueue' = <<>>]_vars
    /\ [][~page.tickerInputMounted =>
             /\ timerQueue' = timerQueue
             /\ requests' \subseteq requests]_vars


\* C29: in AllocationResult the amount that the allocation is computed from
\* equals the amount last saved: after any sequence of change, focus and
\* blur events on the amount field, right after a blur that calls
\* saveAmount(v) the allocation is computed from exactly v.
C29_AllocationFromSavedAmount ==
    [][(handleInputBlur /\ IsPositive(parseCurrency(inputValue)))
          => /\ lastOp'.op = "saveAmount"
             /\ lastOp'.arg = JNum(view'.amount)]_vars


\* the ticker list that the seven fields hold
CurrentTickerList == [i \in 1..NumFields |-> Trim(ToUpperCase(tickers[i].value))]

\* C30: whenever the calculator page shows a score table and an allocation,
\* the scores shown are those computed for the ticker list that the seven
\* fields hold: results of a calculation for an earlier list are never on
\* display.
C30_ResultsOfCurrentTickers ==
    (page.route = HomePage /\ page.hasCalculated /\ scores # <<>> /\ view # NotRendered)
        => /\ apiCalls # <<>>
           /\ apiCalls[Len(apiCalls)].tickers = CurrentTickerList

=============================================================================
